---- MODULE Spec2Model ----
\* Model of the multi-agent cloud architecture planning pipeline of
\* "Test Agent Orchestration for Cloud Architecture Planning.py":
\* RequirementsAnalyzer.analyze_requirements, CloudArchitect.design_architecture
\* and MultiAgentOrchestrator.process_architecture_request.
\*
\* Python strings that the code searches with `in` or lower-cases are modelled
\* as sequences of one-character strings, so that str.lower() and the substring
\* test are computed as the code computes them.  Confidence scores are integer
\* percentages (0.85 is 85).
EXTENDS Integers, Sequences, FiniteSets, TLC

\* ------------------------------------------------------------------------
\* Bounds of the generated inputs of SpecDesign
\* ------------------------------------------------------------------------
\* largest number of business requirements in a generated requirement set
MaxReqs == 1
\* largest number of constraint tags in a generated business requirement
MaxReqTags == 1
\* largest number of constraint tags in a generated top-level constraint list
MaxSetTags == 1

\* ------------------------------------------------------------------------
\* String primitives: str.lower() and the substring test `pat in s`
\* ------------------------------------------------------------------------
UpperToLower ==
    ("A" :> "a") @@ ("B" :> "b") @@ ("C" :> "c") @@ ("D" :> "d") @@ ("E" :> "e") @@
    ("F" :> "f") @@ ("G" :> "g") @@ ("H" :> "h") @@ ("I" :> "i") @@ ("J" :> "j") @@
    ("K" :> "k") @@ ("L" :> "l") @@ ("M" :> "m") @@ ("N" :> "n") @@ ("O" :> "o") @@
    ("P" :> "p") @@ ("Q" :> "q") @@ ("R" :> "r") @@ ("S" :> "s") @@ ("T" :> "t") @@
    ("U" :> "u") @@ ("V" :> "v") @@ ("W" :> "w") @@ ("X" :> "x") @@ ("Y" :> "y") @@
    ("Z" :> "z")

\* s.lower()
lower(s) ==
    [i \in 1..Len(s) |-> IF s[i] \in DOMAIN UpperToLower THEN UpperToLower[s[i]] ELSE s[i]]

\* pat in s   (Python substring test)
In(pat, s) ==
    \E i \in 0..(Len(s) - Len(pat)) : SubSeq(s, i + 1, i + Len(pat)) = pat

\* any(pat in x for x in xs), xs a list of strings
AnyIn(pat, xs) ==
    \E k \in 1..Len(xs) : In(pat, xs[k])

\* ------------------------------------------------------------------------
\* String literals of the source
\* ------------------------------------------------------------------------
\* "ecommerce"
KW_ecommerce ==
    <<"e", "c", "o", "m", "m", "e", "r", "c", "e">>

\* "chatbot"
KW_chatbot ==
    <<"c", "h", "a", "t", "b", "o", "t">>

\* "expense"
KW_expense ==
    <<"e", "x", "p", "e", "n", "s", "e">>

\* "high_availability"
TAG_high_availability ==
    <<"h", "i", "g", "h", "_", "a", "v", "a", "i", "l", "a", "b", "i", "l", "i", "t", "y">>

\* "budget_conscious"
TAG_budget_conscious ==
    <<"b", "u", "d", "g", "e", "t", "_", "c", "o", "n", "s", "c", "i", "o", "u", "s">>

\* "PCI_DSS_compliance"
TAG_PCI_DSS_compliance ==
    <<"P", "C", "I", "_", "D", "S", "S", "_", "c", "o", "m", "p", "l", "i", "a", "n", "c", "e">>

\* "data_privacy"
TAG_data_privacy ==
    <<"d", "a", "t", "a", "_", "p", "r", "i", "v", "a", "c", "y">>

\* "search_capability"
TAG_search_capability ==
    <<"s", "e", "a", "r", "c", "h", "_", "c", "a", "p", "a", "b", "i", "l", "i", "t", "y">>

\* "session_management"
TAG_session_management ==
    <<"s", "e", "s", "s", "i", "o", "n", "_", "m", "a", "n", "a", "g", "e", "m", "e", "n", "t">>

\* "user_management"
TAG_user_management ==
    <<"u", "s", "e", "r", "_", "m", "a", "n", "a", "g", "e", "m", "e", "n", "t">>

\* "time_to_market"
TAG_time_to_market ==
    <<"t", "i", "m", "e", "_", "t", "o", "_", "m", "a", "r", "k", "e", "t">>

\* "real_time_processing"
TAG_real_time_processing ==
    <<"r", "e", "a", "l", "_", "t", "i", "m", "e", "_", "p", "r", "o", "c", "e", "s", "s", "i",
      "n", "g">>

\* "api_compatibility"
TAG_api_compatibility ==
    <<"a", "p", "i", "_", "c", "o", "m", "p", "a", "t", "i", "b", "i", "l", "i", "t", "y">>

\* "seamless_handoff"
TAG_seamless_handoff ==
    <<"s", "e", "a", "m", "l", "e", "s", "s", "_", "h", "a", "n", "d", "o", "f", "f">>

\* "internationalization"
TAG_internationalization ==
    <<"i", "n", "t", "e", "r", "n", "a", "t", "i", "o", "n", "a", "l", "i", "z", "a", "t", "i",
      "o", "n">>

\* "ai_model_accuracy"
TAG_ai_model_accuracy ==
    <<"a", "i", "_", "m", "o", "d", "e", "l", "_", "a", "c", "c", "u", "r", "a", "c", "y">>

\* "response_time"
TAG_response_time ==
    <<"r", "e", "s", "p", "o", "n", "s", "e", "_", "t", "i", "m", "e">>

\* "cross_platform"
TAG_cross_platform ==
    <<"c", "r", "o", "s", "s", "_", "p", "l", "a", "t", "f", "o", "r", "m">>

\* "ocr_capability"
TAG_ocr_capability ==
    <<"o", "c", "r", "_", "c", "a", "p", "a", "b", "i", "l", "i", "t", "y">>

\* "notification_system"
TAG_notification_system ==
    <<"n", "o", "t", "i", "f", "i", "c", "a", "t", "i", "o", "n", "_", "s", "y", "s", "t", "e",
      "m">>

\* "secure_data_transfer"
TAG_secure_data_transfer ==
    <<"s", "e", "c", "u", "r", "e", "_", "d", "a", "t", "a", "_", "t", "r", "a", "n", "s", "f",
      "e", "r">>

\* "mobile_performance"
TAG_mobile_performance ==
    <<"m", "o", "b", "i", "l", "e", "_", "p", "e", "r", "f", "o", "r", "m", "a", "n", "c", "e">>

\* "Handle 1000 daily users"
D_Handle1000 ==
    <<"H", "a", "n", "d", "l", "e", " ", "1", "0", "0", "0", " ", "d", "a", "i", "l", "y", " ",
      "u", "s", "e", "r", "s">>

\* "Secure payment processing"
D_SecurePayment ==
    <<"S", "e", "c", "u", "r", "e", " ", "p", "a", "y", "m", "e", "n", "t", " ", "p", "r", "o",
      "c", "e", "s", "s", "i", "n", "g">>

\* "Product catalog management"
D_ProductCatalog ==
    <<"P", "r", "o", "d", "u", "c", "t", " ", "c", "a", "t", "a", "l", "o", "g", " ", "m", "a",
      "n", "a", "g", "e", "m", "e", "n", "t">>

\* "Shopping cart functionality"
D_ShoppingCart ==
    <<"S", "h", "o", "p", "p", "i", "n", "g", " ", "c", "a", "r", "t", " ", "f", "u", "n", "c",
      "t", "i", "o", "n", "a", "l", "i", "t", "y">>

\* "Admin dashboard"
D_AdminDashboard ==
    <<"A", "d", "m", "i", "n", " ", "d", "a", "s", "h", "b", "o", "a", "r", "d">>

\* "Handle 500+ conversations daily"
D_Handle500 ==
    <<"H", "a", "n", "d", "l", "e", " ", "5", "0", "0", "+", " ", "c", "o", "n", "v", "e", "r",
      "s", "a", "t", "i", "o", "n", "s", " ", "d", "a", "i", "l", "y">>

\* "CRM integration"
D_CRM ==
    <<"C", "R", "M", " ", "i", "n", "t", "e", "g", "r", "a", "t", "i", "o", "n">>

\* "Human escalation"
D_HumanEscalation ==
    <<"H", "u", "m", "a", "n", " ", "e", "s", "c", "a", "l", "a", "t", "i", "o", "n">>

\* "Multi-language support"
D_MultiLanguage ==
    <<"M", "u", "l", "t", "i", "-", "l", "a", "n", "g", "u", "a", "g", "e", " ", "s", "u", "p",
      "p", "o", "r", "t">>

\* "Mobile app support"
D_MobileApp ==
    <<"M", "o", "b", "i", "l", "e", " ", "a", "p", "p", " ", "s", "u", "p", "p", "o", "r", "t">>

\* "Receipt photo processing"
D_ReceiptPhoto ==
    <<"R", "e", "c", "e", "i", "p", "t", " ", "p", "h", "o", "t", "o", " ", "p", "r", "o", "c",
      "e", "s", "s", "i", "n", "g">>

\* "Approval workflow"
D_ApprovalWorkflow ==
    <<"A", "p", "p", "r", "o", "v", "a", "l", " ", "w", "o", "r", "k", "f", "l", "o", "w">>

\* "Payroll integration"
D_Payroll ==
    <<"P", "a", "y", "r", "o", "l", "l", " ", "i", "n", "t", "e", "g", "r", "a", "t", "i", "o",
      "n">>

\* ""
Desc_Empty == <<>>

\* "  "
Desc_Blank ==
    <<" ", " ">>

\* "Online store for small business with product catalog, shopping cart, payment processing, admin dashboard"
Desc_OnlineStore ==
    <<"O", "n", "l", "i", "n", "e", " ", "s", "t", "o", "r", "e", " ", "f", "o", "r", " ", "s",
      "m", "a", "l", "l", " ", "b", "u", "s", "i", "n", "e", "s", "s", " ", "w", "i", "t", "h",
      " ", "p", "r", "o", "d", "u", "c", "t", " ", "c", "a", "t", "a", "l", "o", "g", ",", " ",
      "s", "h", "o", "p", "p", "i", "n", "g", " ", "c", "a", "r", "t", ",", " ", "p", "a", "y",
      "m", "e", "n", "t", " ", "p", "r", "o", "c", "e", "s", "s", "i", "n", "g", ",", " ", "a",
      "d", "m", "i", "n", " ", "d", "a", "s", "h", "b", "o", "a", "r", "d">>

\* "Simple E-commerce Site - Online store for small business (1000 daily users) with product catalog, shopping cart, payment processing, and basic admin dashboard"
Desc_MainScenario ==
    <<"S", "i", "m", "p", "l", "e", " ", "E", "-", "c", "o", "m", "m", "e", "r", "c", "e", " ",
      "S", "i", "t", "e", " ", "-", " ", "O", "n", "l", "i", "n", "e", " ", "s", "t", "o", "r",
      "e", " ", "f", "o", "r", " ", "s", "m", "a", "l", "l", " ", "b", "u", "s", "i", "n", "e",
      "s", "s", " ", "(", "1", "0", "0", "0", " ", "d", "a", "i", "l", "y", " ", "u", "s", "e",
      "r", "s", ")", " ", "w", "i", "t", "h", " ", "p", "r", "o", "d", "u", "c", "t", " ", "c",
      "a", "t", "a", "l", "o", "g", ",", " ", "s", "h", "o", "p", "p", "i", "n", "g", " ", "c",
      "a", "r", "t", ",", " ", "p", "a", "y", "m", "e", "n", "t", " ", "p", "r", "o", "c", "e",
      "s", "s", "i", "n", "g", ",", " ", "a", "n", "d", " ", "b", "a", "s", "i", "c", " ", "a",
      "d", "m", "i", "n", " ", "d", "a", "s", "h", "b", "o", "a", "r", "d">>

\* "asdkj qpwoe random text"
Desc_Random ==
    <<"a", "s", "d", "k", "j", " ", "q", "p", "w", "o", "e", " ", "r", "a", "n", "d", "o", "m",
      " ", "t", "e", "x", "t">>

\* "Ecommerce site for a small shop"
Desc_Ecommerce ==
    <<"E", "c", "o", "m", "m", "e", "r", "c", "e", " ", "s", "i", "t", "e", " ", "f", "o", "r",
      " ", "a", " ", "s", "m", "a", "l", "l", " ", "s", "h", "o", "p">>

\* "Customer support ChatBot"
Desc_Chatbot ==
    <<"C", "u", "s", "t", "o", "m", "e", "r", " ", "s", "u", "p", "p", "o", "r", "t", " ", "C",
      "h", "a", "t", "B", "o", "t">>

\* "Employee EXPENSE tracker"
Desc_Expense ==
    <<"E", "m", "p", "l", "o", "y", "e", "e", " ", "E", "X", "P", "E", "N", "S", "E", " ", "t",
      "r", "a", "c", "k", "e", "r">>

\* "chatbot for an ecommerce expense app"
Desc_ChatbotEcommerce ==
    <<"c", "h", "a", "t", "b", "o", "t", " ", "f", "o", "r", " ", "a", "n", " ", "e", "c", "o",
      "m", "m", "e", "r", "c", "e", " ", "e", "x", "p", "e", "n", "s", "e", " ", "a", "p", "p">>

\* "inexpensive chat"
Desc_NearMiss ==
    <<"i", "n", "e", "x", "p", "e", "n", "s", "i", "v", "e", " ", "c", "h", "a", "t">>

\* "Ecommerce checkout"
BRD_Ecommerce ==
    <<"E", "c", "o", "m", "m", "e", "r", "c", "e", " ", "c", "h", "e", "c", "k", "o", "u", "t">>

\* "Support chatbot"
BRD_Chatbot ==
    <<"S", "u", "p", "p", "o", "r", "t", " ", "c", "h", "a", "t", "b", "o", "t">>

\* "Expense approval"
BRD_Expense ==
    <<"E", "x", "p", "e", "n", "s", "e", " ", "a", "p", "p", "r", "o", "v", "a", "l">>

\* ------------------------------------------------------------------------
\* Enumerations and data classes
\* ------------------------------------------------------------------------
ArchitectureType == {"ecommerce", "chatbot", "expense_tracker"}

CloudProvider == {"aws", "azure", "gcp"}

BusinessRequirement(description, priority, category, constraints) ==
    [description |-> description, priority |-> priority,
     category |-> category, constraints |-> constraints]

TechnicalRequirement(component, reqs, dependencies, performance_needs) ==
    [component |-> component, requirements |-> reqs,
     dependencies |-> dependencies, performance_needs |-> performance_needs]

CloudService(name, provider, service_type, description, cost_estimate, scalability, security_features) ==
    [name |-> name, provider |-> provider, service_type |-> service_type,
     description |-> description, cost_estimate |-> cost_estimate,
     scalability |-> scalability, security_features |-> security_features]

\* the value of a local that has not been assigned yet
None == [none |-> TRUE]

\* ------------------------------------------------------------------------
\* RequirementsAnalyzer.analyze_requirements
\* ------------------------------------------------------------------------
\* the dict the method starts from; it is returned unchanged when no branch matches
EmptyRequirements ==
    [business_requirements |-> <<>>, technical_requirements |-> <<>>,
     constraints |-> <<>>, success_metrics |-> <<>>]

\* faulty variant: the first business requirement does not carry high_availability
EcommerceBusinessRequirements_NoHA ==
    << BusinessRequirement(D_Handle1000, 5, "scalability", <<TAG_time_to_market>>),
       BusinessRequirement(D_SecurePayment, 5, "security", <<TAG_PCI_DSS_compliance>>),
       BusinessRequirement(D_ProductCatalog, 4, "functionality", <<TAG_search_capability>>),
       BusinessRequirement(D_ShoppingCart, 4, "functionality", <<TAG_session_management>>),
       BusinessRequirement(D_AdminDashboard, 3, "functionality", <<TAG_user_management>>) >>

EcommerceBusinessRequirements ==
    << BusinessRequirement(D_Handle1000, 5, "scalability", <<TAG_high_availability>>),
       BusinessRequirement(D_SecurePayment, 5, "security", <<TAG_PCI_DSS_compliance>>),
       BusinessRequirement(D_ProductCatalog, 4, "functionality", <<TAG_search_capability>>),
       BusinessRequirement(D_ShoppingCart, 4, "functionality", <<TAG_session_management>>),
       BusinessRequirement(D_AdminDashboard, 3, "functionality", <<TAG_user_management>>) >>

EcommerceRequirements ==
    [business_requirements |-> EcommerceBusinessRequirements,
     technical_requirements |->
       << TechnicalRequirement("web_application", <<"responsive_design", "mobile_support">>,
                               <<>>, [response_time |-> "<2s"]),
          TechnicalRequirement("database", <<"ACID_compliance", "backup_recovery">>,
                               <<"web_application">>, [concurrent_users |-> 1000]),
          TechnicalRequirement("payment_gateway", <<"PCI_compliance", "encryption">>,
                               <<"web_application">>, [transaction_volume |-> "high"]),
          TechnicalRequirement("file_storage", <<"image_optimization", "CDN">>,
                               <<"web_application">>, [storage_capacity |-> "unlimited"]) >>,
     constraints |-> <<TAG_budget_conscious, TAG_time_to_market>>,
     success_metrics |-> <<"user_satisfaction", "conversion_rate", "uptime">>]

ChatbotRequirements ==
    [business_requirements |->
       << BusinessRequirement(D_Handle500, 5, "scalability", <<TAG_real_time_processing>>),
          BusinessRequirement(D_CRM, 4, "integration", <<TAG_api_compatibility>>),
          BusinessRequirement(D_HumanEscalation, 3, "functionality", <<TAG_seamless_handoff>>),
          BusinessRequirement(D_MultiLanguage, 3, "functionality", <<TAG_internationalization>>) >>,
     technical_requirements |->
       << TechnicalRequirement("ai_service", <<"natural_language_processing", "sentiment_analysis">>,
                               <<>>, [response_time |-> "<1s"]),
          TechnicalRequirement("conversation_storage", <<"real_time_access", "privacy_compliance">>,
                               <<"ai_service">>, [concurrent_conversations |-> 500]),
          TechnicalRequirement("crm_integration", <<"api_connectivity", "data_sync">>,
                               <<"ai_service">>, [sync_frequency |-> "real_time"]) >>,
     constraints |-> <<TAG_ai_model_accuracy, TAG_response_time>>,
     success_metrics |-> <<"resolution_rate", "customer_satisfaction", "escalation_rate">>]

\* faulty variant: image_processing depends on workflow_engine, which is
\* introduced after it
ExpenseRequirements_ForwardDependency ==
    [business_requirements |->
       << BusinessRequirement(D_MobileApp, 5, "functionality", <<TAG_cross_platform>>),
          BusinessRequirement(D_ReceiptPhoto, 4, "functionality", <<TAG_ocr_capability>>),
          BusinessRequirement(D_ApprovalWorkflow, 4, "functionality", <<TAG_notification_system>>),
          BusinessRequirement(D_Payroll, 3, "integration", <<TAG_secure_data_transfer>>) >>,
     technical_requirements |->
       << TechnicalRequirement("mobile_backend", <<"rest_api", "authentication">>,
                               <<>>, [concurrent_users |-> 500]),
          TechnicalRequirement("image_processing", <<"ocr_service", "image_storage">>,
                               <<"workflow_engine">>, [processing_time |-> "<5s"]),
          TechnicalRequirement("workflow_engine", <<"approval_routing", "notifications">>,
                               <<"mobile_backend">>, [approval_time |-> "<24h"]),
          TechnicalRequirement("payroll_integration", <<"secure_api", "data_validation">>,
                               <<"workflow_engine">>, [sync_frequency |-> "daily"]) >>,
     constraints |-> <<TAG_mobile_performance, TAG_data_privacy>>,
     success_metrics |-> <<"user_adoption", "processing_accuracy", "approval_efficiency">>]

ExpenseRequirements ==
    [business_requirements |->
       << BusinessRequirement(D_MobileApp, 5, "functionality", <<TAG_cross_platform>>),
          BusinessRequirement(D_ReceiptPhoto, 4, "functionality", <<TAG_ocr_capability>>),
          BusinessRequirement(D_ApprovalWorkflow, 4, "functionality", <<TAG_notification_system>>),
          BusinessRequirement(D_Payroll, 3, "integration", <<TAG_secure_data_transfer>>) >>,
     technical_requirements |->
       << TechnicalRequirement("mobile_backend", <<"rest_api", "authentication">>,
                               <<>>, [concurrent_users |-> 500]),
          TechnicalRequirement("image_processing", <<"ocr_service", "image_storage">>,
                               <<"mobile_backend">>, [processing_time |-> "<5s"]),
          TechnicalRequirement("workflow_engine", <<"approval_routing", "notifications">>,
                               <<"mobile_backend">>, [approval_time |-> "<24h"]),
          TechnicalRequirement("payroll_integration", <<"secure_api", "data_validation">>,
                               <<"workflow_engine">>, [sync_frequency |-> "daily"]) >>,
     constraints |-> <<TAG_mobile_performance, TAG_data_privacy>>,
     success_metrics |-> <<"user_adoption", "processing_accuracy", "approval_efficiency">>]

\* which branch of the if/elif chain the description takes ("none": no branch)
RequirementsBranch(problem_description) ==
    IF In(KW_ecommerce, lower(problem_description)) THEN "ecommerce"
    ELSE IF In(KW_chatbot, lower(problem_description)) THEN "chatbot"
    ELSE IF In(KW_expense, lower(problem_description)) THEN "expense_tracker"
    ELSE "none"

analyze_requirements(problem_description) ==
    CASE RequirementsBranch(problem_description) = "ecommerce" -> EcommerceRequirements
      [] RequirementsBranch(problem_description) = "chatbot" -> ChatbotRequirements
      [] RequirementsBranch(problem_description) = "expense_tracker" -> ExpenseRequirements
      [] OTHER -> EmptyRequirements

\* ------------------------------------------------------------------------
\* CloudArchitect
\* ------------------------------------------------------------------------
_design_ecommerce_architecture(provider) ==
    IF provider = "aws" THEN
      << CloudService("Amazon EC2", "aws", "compute", "Web application servers",
                      "$200-500/month", "Auto Scaling", <<"VPC", "Security Groups">>),
         CloudService("Amazon RDS", "aws", "database", "MySQL/PostgreSQL database",
                      "$100-300/month", "Read replicas", <<"Encryption at rest", "VPC">>),
         CloudService("Amazon S3", "aws", "storage", "Product images and static assets",
                      "$50-150/month", "Unlimited", <<"Bucket policies", "Encryption">>),
         CloudService("CloudFront", "aws", "networking", "CDN for global content delivery",
                      "$20-100/month", "Global", <<"DDoS protection", "SSL/TLS">>),
         CloudService("Application Load Balancer", "aws", "networking",
                      "Traffic distribution and SSL termination",
                      "$30-80/month", "Auto Scaling", <<"Health checks", "SSL termination">>),
         CloudService("AWS WAF", "aws", "security", "Web application firewall",
                      "$10-50/month", "Auto Scaling", <<"OWASP protection", "DDoS mitigation">>) >>
    ELSE <<>>

_design_chatbot_architecture(provider) ==
    IF provider = "aws" THEN
      << CloudService("AWS Lambda", "aws", "compute", "Serverless chatbot functions",
                      "$50-200/month", "Auto Scaling", <<"IAM roles", "VPC">>),
         CloudService("Amazon Lex", "aws", "ai", "Natural language understanding",
                      "$100-300/month", "Auto Scaling", <<"Data encryption", "Access control">>),
         CloudService("Amazon DynamoDB", "aws", "database", "Conversation storage",
                      "$80-200/month", "Auto Scaling",
                      <<"Encryption at rest", "Point-in-time recovery">>),
         CloudService("Amazon API Gateway", "aws", "networking", "API management",
                      "$30-100/month", "Auto Scaling", <<"API keys", "Rate limiting">>),
         CloudService("Amazon SNS", "aws", "messaging", "Notifications and escalations",
                      "$20-50/month", "Auto Scaling", <<"Message encryption", "Access control">>) >>
    ELSE <<>>

_design_expense_tracker_architecture(provider) ==
    IF provider = "aws" THEN
      << CloudService("AWS Lambda", "aws", "compute", "Serverless backend API",
                      "$50-150/month", "Auto Scaling", <<"IAM roles", "VPC">>),
         CloudService("Amazon S3", "aws", "storage", "Receipt image storage",
                      "$30-100/month", "Unlimited", <<"Bucket policies", "Encryption">>),
         CloudService("Amazon Textract", "aws", "ai", "OCR for receipt processing",
                      "$100-300/month", "Auto Scaling", <<"Data encryption", "Access control">>),
         CloudService("Amazon RDS", "aws", "database", "Expense data storage",
                      "$80-200/month", "Read replicas", <<"Encryption at rest", "VPC">>),
         CloudService("Amazon SNS", "aws", "messaging", "Approval notifications",
                      "$20-50/month", "Auto Scaling", <<"Message encryption", "Access control">>) >>
    ELSE <<>>

\* [req.description.lower() for req in requirements["business_requirements"]]
LoweredDescriptions(reqs) ==
    [k \in 1..Len(reqs.business_requirements) |-> lower(reqs.business_requirements[k].description)]

\* any(tag in constraint for req in requirements["business_requirements"]
\*                       for constraint in req.constraints)
AnyRequirementConstraint(tag, reqs) ==
    \E k \in 1..Len(reqs.business_requirements) :
        AnyIn(tag, reqs.business_requirements[k].constraints)

\* the service list chosen by the if/elif chain of design_architecture
DesignServices(reqs, preferred_provider) ==
    IF AnyIn(KW_ecommerce, LoweredDescriptions(reqs))
      THEN _design_ecommerce_architecture(preferred_provider)
    ELSE IF AnyIn(KW_chatbot, LoweredDescriptions(reqs))
      THEN _design_chatbot_architecture(preferred_provider)
    ELSE IF AnyIn(KW_expense, LoweredDescriptions(reqs))
      THEN _design_expense_tracker_architecture(preferred_provider)
    ELSE <<>>

\* faulty variant: budget_conscious is tested before high_availability
_get_deployment_strategy_BudgetFirst(reqs) ==
    IF AnyIn(TAG_budget_conscious, reqs.constraints)
      THEN "Rolling deployment with cost optimization"
    ELSE IF AnyRequirementConstraint(TAG_high_availability, reqs)
      THEN "Blue-Green deployment with zero downtime"
    ELSE "Canary deployment with gradual rollout"

_get_deployment_strategy(reqs) ==
    IF AnyRequirementConstraint(TAG_high_availability, reqs)
      THEN "Blue-Green deployment with zero downtime"
    ELSE IF AnyIn(TAG_budget_conscious, reqs.constraints)
      THEN "Rolling deployment with cost optimization"
    ELSE "Canary deployment with gradual rollout"

_estimate_costs(services) ==
    "$500-1500/month depending on usage"

\* faulty variant: the privacy item is appended before the PCI item
_get_security_considerations_PrivacyFirst(reqs) ==
    << "Data encryption in transit and at rest", "Identity and access management",
       "Network security" >>
    \o (IF AnyIn(TAG_data_privacy, reqs.constraints)
          THEN << "GDPR compliance for data privacy" >> ELSE <<>>)
    \o (IF AnyRequirementConstraint(TAG_PCI_DSS_compliance, reqs)
          THEN << "PCI DSS compliance for payment processing" >> ELSE <<>>)

_get_security_considerations(reqs) ==
    << "Data encryption in transit and at rest", "Identity and access management",
       "Network security" >>
    \o (IF AnyRequirementConstraint(TAG_PCI_DSS_compliance, reqs)
          THEN << "PCI DSS compliance for payment processing" >> ELSE <<>>)
    \o (IF AnyIn(TAG_data_privacy, reqs.constraints)
          THEN << "GDPR compliance for data privacy" >> ELSE <<>>)

_get_scalability_plan(reqs) ==
    "Auto-scaling based on demand with horizontal scaling capabilities and load balancing"

_get_monitoring_strategy(reqs) ==
    "Comprehensive monitoring with CloudWatch, application performance monitoring, and alerting"

\* confidence_score=0.85, as a percentage
ConfidenceScore == 85

design_architecture(reqs, preferred_provider) ==
    [architecture_type |-> "ecommerce",
     services |-> DesignServices(reqs, preferred_provider),
     deployment_strategy |-> _get_deployment_strategy(reqs),
     cost_estimate |-> _estimate_costs(DesignServices(reqs, preferred_provider)),
     security_considerations |-> _get_security_considerations(reqs),
     scalability_plan |-> _get_scalability_plan(reqs),
     monitoring_strategy |-> _get_monitoring_strategy(reqs),
     confidence_score |-> ConfidenceScore]

\* ------------------------------------------------------------------------
\* MultiAgentOrchestrator.process_architecture_request
\* ------------------------------------------------------------------------
NextSteps ==
    << "Review and approve architecture design", "Set up development environment",
       "Implement security controls", "Plan deployment strategy" >>

CompileFinalRecommendation(description, reqs, arch) ==
    [problem_description |-> description,
     requirements |-> reqs,
     architecture |-> arch,
     confidence_score |-> arch.confidence_score,
     next_steps |-> NextSteps]

\* descriptions a caller passes to process_architecture_request
Descriptions ==
    { Desc_Empty, Desc_Blank, Desc_OnlineStore, Desc_MainScenario, Desc_Random,
      Desc_Ecommerce, Desc_Chatbot, Desc_Expense, Desc_ChatbotEcommerce, Desc_NearMiss }

VARIABLES
    pc,                    \* position of the request in process_architecture_request
    stages,                \* the stages the request has entered, in order
    problem_description,   \* argument of process_architecture_request
    preferred_provider,    \* argument of process_architecture_request / design_architecture
    requirements,          \* local `requirements`
    architecture,          \* local `architecture`
    final_recommendation   \* the returned dict

vars == << pc, stages, problem_description, preferred_provider,
           requirements, architecture, final_recommendation >>

\* no request has been made
Init ==
    /\ pc = "idle"
    /\ stages = <<>>
    /\ problem_description = <<>>
    /\ preferred_provider = "aws"
    /\ requirements = None
    /\ architecture = None
    /\ final_recommendation = None

\* a caller invokes process_architecture_request(description, provider)
process_architecture_request ==
    /\ pc = "idle"
    /\ \E d \in Descriptions, p \in CloudProvider :
         /\ problem_description' = d
         /\ preferred_provider' = p
    /\ pc' = "analyzing"
    /\ stages' = Append(stages, "analyzing")
    /\ UNCHANGED << requirements, architecture, final_recommendation >>

\* Step 1: requirements = await self.requirements_analyzer.analyze_requirements(...)
AnalyzeStep ==
    /\ pc = "analyzing"
    /\ requirements' = analyze_requirements(problem_description)
    /\ pc' = "designing"
    /\ stages' = Append(stages, "designing")
    /\ UNCHANGED << problem_description, preferred_provider, architecture, final_recommendation >>

\* faulty variant: after the design the request goes back to the analysis
DesignStep_Reenter ==
    /\ pc = "designing"
    /\ architecture' = design_architecture(requirements, preferred_provider)
    /\ pc' = "analyzing"
    /\ stages' = Append(stages, "analyzing")
    /\ UNCHANGED << problem_description, preferred_provider, requirements, final_recommendation >>

\* Step 2: architecture = await self.cloud_architect.design_architecture(...)
DesignStep ==
    /\ pc = "designing"
    /\ architecture' = design_architecture(requirements, preferred_provider)
    /\ pc' = "compiling"
    /\ stages' = Append(stages, "compiling")
    /\ UNCHANGED << problem_description, preferred_provider, requirements, final_recommendation >>

\* compile final_recommendation and return it
CompileStep ==
    /\ pc = "compiling"
    /\ final_recommendation' =
         CompileFinalRecommendation(problem_description, requirements, architecture)
    /\ pc' = "done"
    /\ stages' = Append(stages, "done")
    /\ UNCHANGED << problem_description, preferred_provider, requirements, architecture >>

Next ==
    \/ process_architecture_request
    \/ AnalyzeStep
    \/ DesignStep
    \/ CompileStep

Spec == Init /\ [][Next]_vars

\* ------------------------------------------------------------------------
\* SpecDesign: CloudArchitect.design_architecture called on generated
\* requirement dicts (every list of business requirements and every list of
\* constraint tags within the bounds)
\* ------------------------------------------------------------------------
\* all sequences over S of length at most n
SeqsUpTo(S, n) ==
    UNION { [1..k -> S] : k \in 0..n }

\* the constraint tags the architect's rules look for
RecognizedTags ==
    { TAG_high_availability, TAG_budget_conscious, TAG_PCI_DSS_compliance, TAG_data_privacy }

GenDescriptions ==
    { D_Handle1000, BRD_Ecommerce, BRD_Chatbot, BRD_Expense }

GenBusinessRequirements ==
    { BusinessRequirement(d, 5, "functionality", c) :
        d \in GenDescriptions, c \in SeqsUpTo(RecognizedTags, MaxReqTags) }

GenRequirements ==
    [ business_requirements : SeqsUpTo(GenBusinessRequirements, MaxReqs),
      technical_requirements : { <<>> },
      constraints : SeqsUpTo(RecognizedTags, MaxSetTags),
      success_metrics : { <<>> } ]

\* a caller is about to run design_architecture(requirements, preferred_provider)
InitDesign ==
    /\ pc = "designing"
    /\ stages = << "designing" >>
    /\ problem_description = <<>>
    /\ preferred_provider \in CloudProvider
    /\ requirements \in GenRequirements
    /\ architecture = None
    /\ final_recommendation = None

NextDesign ==
    DesignStep

SpecDesign == InitDesign /\ [][NextDesign]_vars

\* ------------------------------------------------------------------------
\* SpecConc: several requests processed concurrently by one orchestrator.
\* Each call of process_architecture_request has its own locals; here every
\* variable is a function from the request to the value of that call.  The
\* calls interleave at their steps in every order.
\* ------------------------------------------------------------------------
\* number of concurrent requests
NumRequests == 2

Requests == 1..NumRequests

\* descriptions passed by the concurrent callers
ConcDescriptions ==
    { Desc_Ecommerce, Desc_Chatbot, Desc_Random }

\* no request has been made
InitConc ==
    /\ pc = [r \in Requests |-> "idle"]
    /\ stages = [r \in Requests |-> <<>>]
    /\ problem_description = [r \in Requests |-> <<>>]
    /\ preferred_provider = [r \in Requests |-> "aws"]
    /\ requirements = [r \in Requests |-> None]
    /\ architecture = [r \in Requests |-> None]
    /\ final_recommendation = [r \in Requests |-> None]

\* caller r invokes process_architecture_request(description, provider)
ConcRequest(r) ==
    /\ pc[r] = "idle"
    /\ \E d \in ConcDescriptions, p \in CloudProvider :
         /\ problem_description' = [problem_description EXCEPT ![r] = d]
         /\ preferred_provider' = [preferred_provider EXCEPT ![r] = p]
    /\ pc' = [pc EXCEPT ![r] = "analyzing"]
    /\ stages' = [stages EXCEPT ![r] = Append(@, "analyzing")]
    /\ UNCHANGED << requirements, architecture, final_recommendation >>

\* faulty variant: the requirement dict is one object shared by all calls
ConcAnalyzeStep_Shared(r) ==
    /\ pc[r] = "analyzing"
    /\ requirements' = [q \in Requests |-> analyze_requirements(problem_description[r])]
    /\ pc' = [pc EXCEPT ![r] = "designing"]
    /\ stages' = [stages EXCEPT ![r] = Append(@, "designing")]
    /\ UNCHANGED << problem_description, preferred_provider, architecture, final_recommendation >>

\* Step 1 of call r
ConcAnalyzeStep(r) ==
    /\ pc[r] = "analyzing"
    /\ requirements' = [requirements EXCEPT ![r] = analyze_requirements(problem_description[r])]
    /\ pc' = [pc EXCEPT ![r] = "designing"]
    /\ stages' = [stages EXCEPT ![r] = Append(@, "designing")]
    /\ UNCHANGED << problem_description, preferred_provider, architecture, final_recommendation >>

\* Step 2 of call r
ConcDesignStep(r) ==
    /\ pc[r] = "designing"
    /\ architecture' = [architecture EXCEPT
                          ![r] = design_architecture(requirements[r], preferred_provider[r])]
    /\ pc' = [pc EXCEPT ![r] = "compiling"]
    /\ stages' = [stages EXCEPT ![r] = Append(@, "compiling")]
    /\ UNCHANGED << problem_description, preferred_provider, requirements, final_recommendation >>

\* call r compiles its final_recommendation and returns it
ConcCompileStep(r) ==
    /\ pc[r] = "compiling"
    /\ final_recommendation' = [final_recommendation EXCEPT
         ![r] = CompileFinalRecommendation(problem_description[r], requirements[r],
                                           architecture[r])]
    /\ pc' = [pc EXCEPT ![r] = "done"]
    /\ stages' = [stages EXCEPT ![r] = Append(@, "done")]
    /\ UNCHANGED << problem_description, preferred_provider, requirements, architecture >>

NextConc ==
    \E r \in Requests :
        \/ ConcRequest(r)
        \/ ConcAnalyzeStep(r)
        \/ ConcDesignStep(r)
        \/ ConcCompileStep(r)

SpecConc == InitConc /\ [][NextConc]_vars

\* ------------------------------------------------------------------------
\* Properties
\* ------------------------------------------------------------------------
\* the request has an architecture (design_architecture has returned)
Designed == pc \in {"compiling", "done"}

\* the description is empty or consists of whitespace only
IsBlank(s) == \A i \in 1..Len(s) : s[i] \in {" ", "\t", "\n", "\r"}

\* tag is an element of the list of tags
HasTag(tag, tags) == \E k \in 1..Len(tags) : tags[k] = tag

\* some business requirement lists the tag among its constraints
SomeRequirementHasTag(tag, reqs) ==
    \E k \in 1..Len(reqs.business_requirements) :
        HasTag(tag, reqs.business_requirements[k].constraints)

\* C1: the architecture_type of the returned recommendation is the category
\* whose branch of analyze_requirements produced the requirement set.
C1_CategoryThreaded ==
    (pc = "done" /\ RequirementsBranch(problem_description) # "none")
      => final_recommendation.architecture.architecture_type
           = RequirementsBranch(problem_description)

\* C2: for every supported category, the requirement set produced by
\* analyze_requirements, given to design_architecture with the default
\* provider (AWS), yields a non-empty service list.
C2_ServicesNonEmpty ==
    (Designed /\ RequirementsBranch(problem_description) # "none"
              /\ preferred_provider = "aws")
      => Len(architecture.services) > 0

\* C3 (as claimed): the deployment strategy is decided by the requirement
\* set's own constraint tags: blue-green if high_availability is among them,
\* otherwise rolling if budget_conscious is among them, otherwise canary.
C3_PrecedenceOverSetTags ==
    Designed =>
      architecture.deployment_strategy =
        IF HasTag(TAG_high_availability, requirements.constraints)
          THEN "Blue-Green deployment with zero downtime"
        ELSE IF HasTag(TAG_budget_conscious, requirements.constraints)
          THEN "Rolling deployment with cost optimization"
        ELSE "Canary deployment with gradual rollout"

\* C3 (amended): the deployment strategy is blue-green if some business
\* requirement lists high_availability among its constraints (even when
\* budget_conscious is in the requirement set's constraint list), otherwise
\* rolling with cost optimization if budget_conscious is in the requirement
\* set's constraint list, otherwise canary.
C3_DeploymentPrecedence ==
    Designed =>
      architecture.deployment_strategy =
        IF SomeRequirementHasTag(TAG_high_availability, requirements)
          THEN "Blue-Green deployment with zero downtime"
        ELSE IF HasTag(TAG_budget_conscious, requirements.constraints)
          THEN "Rolling deployment with cost optimization"
        ELSE "Canary deployment with gradual rollout"

\* C3 witness: a designed architecture for a requirement set with
\* high_availability on a business requirement and budget_conscious in the
\* constraint list, deployed blue-green.
C3_Witness ==
    /\ Designed
    /\ SomeRequirementHasTag(TAG_high_availability, requirements)
    /\ HasTag(TAG_budget_conscious, requirements.constraints)
    /\ architecture.deployment_strategy = "Blue-Green deployment with zero downtime"

\* C4: the "Online store ..." description is classified as ecommerce and its
\* requirement set has a priority-5 scalability requirement and a priority-5
\* security requirement tagged with PCI compliance.
C4_OnlineStoreRequirements ==
    (problem_description = Desc_OnlineStore /\ pc \in {"designing", "compiling", "done"})
      => /\ RequirementsBranch(problem_description) = "ecommerce"
         /\ \E k \in 1..Len(requirements.business_requirements) :
              /\ requirements.business_requirements[k].priority = 5
              /\ requirements.business_requirements[k].category = "scalability"
         /\ \E k \in 1..Len(requirements.business_requirements) :
              /\ requirements.business_requirements[k].priority = 5
              /\ requirements.business_requirements[k].category = "security"
              /\ HasTag(TAG_PCI_DSS_compliance,
                        requirements.business_requirements[k].constraints)

\* C5 (as claimed): for the e-commerce requirement set and the default
\* provider the deployment strategy is rolling with cost optimization.
C5_EcommerceRolling ==
    (Designed /\ RequirementsBranch(problem_description) = "ecommerce"
              /\ preferred_provider = "aws")
      => architecture.deployment_strategy = "Rolling deployment with cost optimization"

\* C5 (amended): for the e-commerce requirement set the deployment strategy is
\* blue-green: the set has budget_conscious in its constraint list, and its
\* business requirements carry high_availability, which the rule tests first.
C5_EcommerceBlueGreen ==
    (Designed /\ RequirementsBranch(problem_description) = "ecommerce")
      => /\ HasTag(TAG_budget_conscious, requirements.constraints)
         /\ SomeRequirementHasTag(TAG_high_availability, requirements)
         /\ architecture.deployment_strategy = "Blue-Green deployment with zero downtime"

\* C5 witness: a finished e-commerce request with the default provider whose
\* architecture is deployed blue-green.
C5_Witness ==
    /\ pc = "done"
    /\ RequirementsBranch(problem_description) = "ecommerce"
    /\ preferred_provider = "aws"
    /\ final_recommendation.architecture.deployment_strategy
         = "Blue-Green deployment with zero downtime"

\* C6: a request with an empty or whitespace-only description produces no
\* stage output and no recommendation.
C6_BlankIsRejected ==
    (pc # "idle" /\ IsBlank(problem_description))
      => /\ pc = "analyzing"
         /\ requirements = None
         /\ architecture = None
         /\ final_recommendation = None

\* C7: the recommendation returned for a non-empty description that matches
\* no category is marked incomplete and has a confidence of at most 0.3.
C7_UnknownIsLowConfidence ==
    (pc = "done" /\ ~IsBlank(problem_description)
                 /\ RequirementsBranch(problem_description) = "none")
      => /\ final_recommendation.confidence_score <= 30
         /\ "completeness" \in DOMAIN final_recommendation
         /\ final_recommendation.completeness = FALSE

\* C8: for a provider other than the default one, the architecture of a
\* supported category has the default provider's (non-empty) service list,
\* a deployment-strategy text that flags the substitution, and confidence 0.5.
C8_ProviderFallback ==
    (Designed /\ preferred_provider # "aws"
              /\ RequirementsBranch(problem_description) # "none")
      => /\ Len(architecture.services) > 0
         /\ architecture.services = DesignServices(requirements, "aws")
         /\ architecture.deployment_strategy # _get_deployment_strategy(requirements)
         /\ architecture.confidence_score = 50

\* C9: the overall confidence is the equal-weight mean of the classification,
\* extraction and synthesis confidences (no specialist runs, so no penalty
\* applies); the classification confidence of a description that matches no
\* category is 0, any other stage confidence lies between 0 and 1.
C9_OverallIsMean ==
    pc = "done" =>
      \E classification \in (IF RequirementsBranch(problem_description) = "none"
                               THEN {0} ELSE 0..100),
         extraction \in 0..100 :
        3 * final_recommendation.confidence_score
          = classification + extraction + architecture.confidence_score

\* C10: a request that has finished went through a Reviewing stage between
\* synthesis and the compilation of the final recommendation.
C10_ReviewingStageRuns ==
    pc = "done" =>
      \E i \in 1..Len(stages), j \in 1..Len(stages) :
        /\ stages[i] = "reviewing"
        /\ stages[j] = "compiling"
        /\ i < j

\* the order of the steps of process_architecture_request
StageOrder == << "analyzing", "designing", "compiling", "done" >>

\* C11: the stages are entered in order, each at most once; the architecture
\* exists only after the requirements analysis and is designed from exactly its
\* output, and the final recommendation is compiled only after the design, from
\* exactly these requirements and this architecture.
C11_StagesForward ==
    /\ Len(stages) <= Len(StageOrder)
    /\ stages = SubSeq(StageOrder, 1, Len(stages))
    /\ pc = (IF stages = <<>> THEN "idle" ELSE stages[Len(stages)])
    /\ (pc \in {"idle", "analyzing"}) => (requirements = None /\ architecture = None)
    /\ (pc = "designing") => (requirements # None /\ architecture = None)
    /\ (pc # "done") => (final_recommendation = None)
    /\ Designed => /\ requirements = analyze_requirements(problem_description)
                   /\ architecture = design_architecture(requirements, preferred_provider)
    /\ (pc = "done") => /\ final_recommendation.requirements = requirements
                        /\ final_recommendation.architecture = architecture

\* C11 witness: a finished request that went through the four steps once each,
\* whose architecture was designed from a non-empty requirement set.
C11_Witness ==
    /\ pc = "done"
    /\ stages = StageOrder
    /\ Len(requirements.business_requirements) > 0
    /\ final_recommendation.architecture
         = design_architecture(analyze_requirements(problem_description), preferred_provider)

\* the three items every list of security considerations starts with
BaselineConsiderations ==
    << "Data encryption in transit and at rest", "Identity and access management",
       "Network security" >>

\* the tag occurs in the requirement set: in its constraint list or among the
\* constraints of one of its business requirements
TagPresent(tag, reqs) ==
    HasTag(tag, reqs.constraints) \/ SomeRequirementHasTag(tag, reqs)

\* the list has no two equal elements
NoDuplicates(list) ==
    \A i \in 1..Len(list), j \in 1..Len(list) : (list[i] = list[j]) => (i = j)

\* C12 (as claimed): the security considerations are the three baseline items,
\* then the PCI item exactly when a PCI-DSS tag is present in the requirement
\* set, then the privacy item exactly when a data-privacy tag is present in
\* it, without duplicates.
C12_ItemsByTagPresence ==
    Designed =>
      /\ architecture.security_considerations =
           BaselineConsiderations
           \o (IF TagPresent(TAG_PCI_DSS_compliance, requirements)
                 THEN << "PCI DSS compliance for payment processing" >> ELSE <<>>)
           \o (IF TagPresent(TAG_data_privacy, requirements)
                 THEN << "GDPR compliance for data privacy" >> ELSE <<>>)
      /\ NoDuplicates(architecture.security_considerations)

\* C12 (amended): the security considerations are the three baseline items,
\* then the PCI item exactly when some business requirement lists
\* PCI_DSS_compliance among its constraints, then the privacy item exactly
\* when data_privacy is in the requirement set's constraint list, without
\* duplicates.
C12_SecurityConsiderations ==
    Designed =>
      /\ architecture.security_considerations =
           BaselineConsiderations
           \o (IF SomeRequirementHasTag(TAG_PCI_DSS_compliance, requirements)
                 THEN << "PCI DSS compliance for payment processing" >> ELSE <<>>)
           \o (IF HasTag(TAG_data_privacy, requirements.constraints)
                 THEN << "GDPR compliance for data privacy" >> ELSE <<>>)
      /\ NoDuplicates(architecture.security_considerations)

\* C12 witness: a designed architecture for a requirement set with
\* PCI_DSS_compliance on a business requirement and data_privacy in the
\* constraint list, whose security considerations have all five items.
C12_Witness ==
    /\ Designed
    /\ SomeRequirementHasTag(TAG_PCI_DSS_compliance, requirements)
    /\ HasTag(TAG_data_privacy, requirements.constraints)
    /\ Len(architecture.security_considerations) = 5
    /\ architecture.security_considerations[4] = "PCI DSS compliance for payment processing"

\* every dependency of the i-th technical requirement is the component of a
\* technical requirement before it in the list
DependsOnEarlier(trs, i) ==
    \A d \in 1..Len(trs[i].dependencies) :
        \E j \in 1..(i - 1) : trs[j].component = trs[i].dependencies[d]

\* C13: in every requirement set analyze_requirements returns, each technical
\* requirement depends only on components that appear earlier in the same
\* list (no cycle, no dangling and no self reference).
C13_DependenciesPointBack ==
    (pc \in {"designing", "compiling", "done"}) =>
      \A i \in 1..Len(requirements.technical_requirements) :
          DependsOnEarlier(requirements.technical_requirements, i)

\* C13 witness: the returned expense-tracker requirement set, whose fourth
\* technical requirement depends on the third one's component.
C13_Witness ==
    /\ pc = "designing"
    /\ RequirementsBranch(problem_description) = "expense_tracker"
    /\ Len(requirements.technical_requirements) = 4
    /\ requirements.technical_requirements[4].dependencies
         = << requirements.technical_requirements[3].component >>

\* what process_architecture_request returns for (description, provider) when
\* the call runs alone
AloneRequirements(description) == analyze_requirements(description)

AloneArchitecture(description, provider) ==
    design_architecture(AloneRequirements(description), provider)

AloneRecommendation(description, provider) ==
    CompileFinalRecommendation(description, AloneRequirements(description),
                               AloneArchitecture(description, provider))

\* C14: in every interleaving of concurrent requests, each request's
\* requirement set, architecture and final recommendation are those of the
\* same request run alone, and a request that has not reached a stage has no
\* output of it, whatever the other requests have done.
C14_RequestsIsolated ==
    \A r \in Requests :
      /\ (pc[r] \in {"idle", "analyzing"}) => (requirements[r] = None)
      /\ (pc[r] \in {"idle", "analyzing", "designing"}) => (architecture[r] = None)
      /\ (pc[r] # "done") => (final_recommendation[r] = None)
      /\ (pc[r] \in {"designing", "compiling", "done"}) =>
            (requirements[r] = AloneRequirements(problem_description[r]))
      /\ (pc[r] \in {"compiling", "done"}) =>
            (architecture[r] = AloneArchitecture(problem_description[r], preferred_provider[r]))
      /\ (pc[r] = "done") =>
            (final_recommendation[r]
               = AloneRecommendation(problem_description[r], preferred_provider[r]))

\* C14 witness: two requests of different categories interleaved: the first
\* has returned its e-commerce recommendation while the second, a chatbot
\* request, has its requirements but no architecture yet.
C14_Witness ==
    /\ pc[1] = "done"
    /\ pc[2] = "designing"
    /\ RequirementsBranch(problem_description[1]) = "ecommerce"
    /\ RequirementsBranch(problem_description[2]) = "chatbot"
    /\ Len(final_recommendation[1].requirements.business_requirements) = 5
    /\ Len(requirements[2].business_requirements) = 4

====
